---- MODULE Spec2Model ----
(***************************************************************************)
(* State-machine model of src/src/node_perf.cc (node::performance): the    *)
(* GC cycle tracker (MarkGarbageCollectionStart / MarkGarbageCollectionEnd *)
(* and their installation), the shared observer counters, and the deferred *)
(* delivery of GC performance entries through Environment::SetImmediate.   *)
(* A second specification, SpecRegion, covers the milestone slots, the     *)
(* observer callback and notify, the interval histogram and the snapshot   *)
(* of the shared state.                                                    *)
(*                                                                         *)
(* Doubles are modelled as exact values: a millisecond quantity x / 1e6 is *)
(* the pair (whole milliseconds, remaining nanoseconds); IEEE rounding is  *)
(* not modelled.  uint64 clock values stay far below 2^64 and the time     *)
(* origin never exceeds the clock, so the unsigned subtraction of line 179 *)
(* never wraps.                                                            *)
(***************************************************************************)
EXTENDS Integers, Sequences, FiniteSets, TLC

\* ------------------------------------------------------------------ bounds
MaxEntries == 2     \* GC entries scheduled in one run
MaxHooks == 2       \* registrations of each GC callback
MaxObservers == 1   \* largest value the script layer writes to a counter

\* ------------------------------------------------------- program constants
\* #define NANOS_PER_MILLIS 1e6
NANOS_PER_MILLIS == 1000000
\* NODE_DEFINE_CONSTANT(constants, NODE_PERFORMANCE_GC_MAJOR / _MINOR):
\* v8::kGCTypeMarkSweepCompact and v8::kGCTypeScavenge
NODE_PERFORMANCE_GC_MAJOR == 4
NODE_PERFORMANCE_GC_MINOR == 1
\* NODE_PERFORMANCE_GC_FLAGS_NO / _FORCED: v8::kNoGCCallbackFlags, kGCCallbackFlagForced
NODE_PERFORMANCE_GC_FLAGS_NO == 0
NODE_PERFORMANCE_GC_FLAGS_FORCED == 4
\* index of the "gc" entry type in PerformanceState::observers
NODE_PERFORMANCE_ENTRY_TYPE_GC == 0
\* number of entry types: the length of PerformanceState::observers
NODE_PERFORMANCE_ENTRY_TYPE_INVALID == 2
EntryTypes == 0..(NODE_PERFORMANCE_ENTRY_TYPE_INVALID - 1)
\* number of milestones: the length of PerformanceState::milestones, and the
\* sentinel id MarkMilestone rejects.  The model keeps three milestones, the
\* last of them NODE_PERFORMANCE_MILESTONE_BOOTSTRAP_COMPLETE.
NODE_PERFORMANCE_MILESTONE_INVALID == 3
NODE_PERFORMANCE_MILESTONE_BOOTSTRAP_COMPLETE == 2
MilestoneIds == 0..(NODE_PERFORMANCE_MILESTONE_INVALID - 1)
\* Int32 values a script passes to markMilestone: the valid ids, the sentinel,
\* a negative id and an id past the sentinel
MilestoneArgs == (0 - 1)..(NODE_PERFORMANCE_MILESTONE_INVALID + 1)
\* Realm::Kind of the realm a binding is called from
RealmKinds == {"kPrincipal", "kShadowRealm"}
\* args[0] of setupObservers: two functions and a value that is no function
Functions == {"f", "g"}
CallbackArgs == Functions \cup {"undefined"}
\* args[0] of notify: the names of the defined entry types and an unknown one
TypeNames == {"gc", "http", "bogus"}
\* args[1] of notify
Entries == {"e1", "e2"}
\* args[0] of createELDHistogram
Intervals == (0 - 1)..1

\* GCType values the collector passes to the prologue / epilogue callbacks
GCTypes == {NODE_PERFORMANCE_GC_MINOR, NODE_PERFORMANCE_GC_MAJOR}
\* GCCallbackFlags values the collector passes
GCFlags == {NODE_PERFORMANCE_GC_FLAGS_NO, NODE_PERFORMANCE_GC_FLAGS_FORCED}

\* Readings of the monotonic clock PERFORMANCE_NOW() (nanoseconds).  The
\* process starts one nanosecond before a millisecond boundary, and the clock
\* is read there, a fine step (just under 1 ms) later and a coarse step
\* (50 ms) later.
ProcessStart == NANOS_PER_MILLIS - 1
FineStep == NANOS_PER_MILLIS - 1
CoarseStep == 50 * NANOS_PER_MILLIS
ClockValues ==
  {ProcessStart, ProcessStart + FineStep, ProcessStart + CoarseStep}

VARIABLES
  current_gc_type,                 \* PerformanceState::current_gc_type
  performance_last_gc_start_mark,  \* PerformanceState::performance_last_gc_start_mark
  observers,                       \* PerformanceState::observers
  time_origin,                     \* env->time_origin()
  now,                             \* latest reading of PERFORMANCE_NOW()
  gc_prologue_callbacks,           \* registrations of MarkGarbageCollectionStart
  gc_epilogue_callbacks,           \* registrations of MarkGarbageCollectionEnd
  cleanup_hooks,                   \* registrations of GarbageCollectionCleanupHook
  immediates,                      \* env's queue of SetImmediate tasks (entries)
  scheduled,                       \* history: number of entries ever scheduled
  callback_calls,                  \* history: seq numbers handed to the callback
  open_start,                      \* history: kind of the accepted, still open start
  open_since,                      \* history: clock reading of that start
  last_op,                         \* history: the latest signal or binding call
  stale_start,                     \* history: the kind that the latest install or
                                   \* uninstall found in progress, until a start
                                   \* is accepted
  process,                         \* "running" | "aborted" | "exited"
  milestones,                      \* PerformanceState::milestones
  performance_entry_callback,      \* realm's performance entry callback, 0 = empty
  histograms,                      \* intervals of the interval histograms created
  snapshot,                        \* PerformanceState::SerializeInfo and its block
  last_call                        \* history: the latest binding call and its effects

vars == <<current_gc_type, performance_last_gc_start_mark, observers,
          time_origin, now, gc_prologue_callbacks, gc_epilogue_callbacks,
          cleanup_hooks, immediates, scheduled, callback_calls, open_start,
          open_since, last_op, stale_start, process, milestones,
          performance_entry_callback, histograms, snapshot, last_call>>

\* The variables the GC tracker's signals and calls leave alone.
regionVars ==
  <<milestones, performance_entry_callback, histograms, snapshot, last_call>>

\* ----------------------------------------------------------- milliseconds
\* uint64 nanoseconds / NANOS_PER_MILLIS as a double
ToMillis(ns) ==
  [ms |-> ns \div NANOS_PER_MILLIS, ns |-> ns % NANOS_PER_MILLIS]

\* Mutant: the subtraction without the borrow from the whole milliseconds.
MillisSub_NoBorrow(a, b) ==
  [ms |-> a.ms - b.ms,
   ns |-> IF a.ns >= b.ns THEN a.ns - b.ns ELSE b.ns - a.ns]

\* a - b on two millisecond values
MillisSub(a, b) ==
  IF a.ns >= b.ns
    THEN [ms |-> a.ms - b.ms, ns |-> a.ns - b.ns]
    ELSE [ms |-> a.ms - b.ms - 1, ns |-> a.ns + NANOS_PER_MILLIS - b.ns]

\* -------------------------------------------------------------- the state
\* The fields the GC callbacks read and write, as one record.
TrackerState ==
  [cur |-> current_gc_type,
   mark |-> performance_last_gc_start_mark,
   queue |-> immediates,
   count |-> scheduled,
   calls |-> callback_calls,
   pro |-> gc_prologue_callbacks,
   epi |-> gc_epilogue_callbacks]

SetTrackerState(st) ==
  /\ current_gc_type' = st.cur
  /\ performance_last_gc_start_mark' = st.mark
  /\ immediates' = st.queue
  /\ scheduled' = st.count
  /\ callback_calls' = st.calls
  /\ gc_prologue_callbacks' = st.pro
  /\ gc_epilogue_callbacks' = st.epi

\* ------------------------------------------------- construction, snapshot
\* struct performance_state_internal, the block behind `root`: the milestone
\* slots followed by the observer counters.  The aliased arrays `milestones`
\* and `observers` are views of the block at these offsets.
OffsetOfMilestones == 0
OffsetOfObservers == NODE_PERFORMANCE_MILESTONE_INVALID
SizeOfInternal ==
  NODE_PERFORMANCE_MILESTONE_INVALID + NODE_PERFORMANCE_ENTRY_TYPE_INVALID

\* no SerializeInfo: the `info == nullptr` of the constructor
NoSnapshot == [root |-> <<>>]

\* PerformanceState::Serialize: the SerializeInfo holds the block of `root`
\* and the two views' offsets into it
Serialize(ms, obs) ==
  [root |-> [i \in 1..SizeOfInternal |->
               IF i <= OffsetOfObservers
                 THEN ms[i - 1 - OffsetOfMilestones]
                 ELSE obs[i - 1 - OffsetOfObservers]],
   milestones |-> OffsetOfMilestones,
   observers |-> OffsetOfObservers]

\* Mutant: the constructor resetting the milestones whatever `info` is.
PerformanceState_AlwaysReset(info) ==
  [milestones |-> [m \in MilestoneIds |-> 0 - 1],
   observers |-> IF info = NoSnapshot
                   THEN [e \in EntryTypes |-> 0]
                   ELSE [e \in EntryTypes |-> info.root[info.observers + e + 1]]]

\* PerformanceState::PerformanceState(isolate, info) followed, when there is
\* a snapshot, by PerformanceState::Deserialize: without a snapshot the block
\* is zero-filled and every milestone is set to -1; with one, the views are
\* set up over the snapshot's block and nothing is reset
PerformanceState(info) ==
  IF info = NoSnapshot
    THEN [milestones |-> [m \in MilestoneIds |-> 0 - 1],
          observers |-> [e \in EntryTypes |-> 0]]
    ELSE [milestones |->
            [m \in MilestoneIds |-> info.root[info.milestones + m + 1]],
          observers |->
            [e \in EntryTypes |-> info.root[info.observers + e + 1]]]

Init ==
  /\ current_gc_type = 0
  /\ performance_last_gc_start_mark = 0
  /\ observers = [e \in EntryTypes |-> 0]
  /\ time_origin = ProcessStart
  /\ now = ProcessStart
  /\ gc_prologue_callbacks = 0
  /\ gc_epilogue_callbacks = 0
  /\ cleanup_hooks = 0
  /\ immediates = <<>>
  /\ scheduled = 0
  /\ callback_calls = <<>>
  /\ open_start = 0
  /\ open_since = 0
  /\ last_op = [op |-> "none", type |-> 0, was |-> 0]
  /\ stale_start = 0
  /\ process = "running"
  /\ milestones = PerformanceState(NoSnapshot).milestones
  /\ performance_entry_callback = "empty"
  /\ histograms = {}
  /\ snapshot = NoSnapshot
  /\ last_call = [op |-> "none", arg |-> 0, was |-> 0, trace |-> <<>>, calls |-> <<>>]

\* ------------------------------------------------------------ GC callbacks
\* Mutant: the start callback without its reentrancy guard.
MarkGarbageCollectionStart_NoGuard(st, type, t) ==
  [st EXCEPT !.mark = t, !.cur = type]

\* MarkGarbageCollectionStart(isolate, type, flags, data), reading the clock t
MarkGarbageCollectionStart(st, type, t) ==
  IF st.cur # 0
    THEN st
    ELSE [st EXCEPT !.mark = t, !.cur = type]

\* env->SetImmediate(task, kUnrefed): the task joins the tail of the queue
SetImmediate(queue, entry) == Append(queue, entry)

\* std::make_unique<GCPerformanceEntry>("gc", start_time, duration, Details(type, flags))
GCPerformanceEntry(start_time, duration, type, flags, seq) ==
  [name |-> "gc", start_time |-> start_time, duration |-> duration,
   kind |-> type, flags |-> flags, seq |-> seq]

\* The entry MarkGarbageCollectionEnd builds from the start mark and the clock t
BuildEntry(st, type, flags, t) ==
  GCPerformanceEntry(ToMillis(st.mark - time_origin),
                     MillisSub(ToMillis(t), ToMillis(st.mark)),
                     type, flags, st.count + 1)

\* Mutant: the end callback without the check of the kind in progress.
MarkGarbageCollectionEnd_NoKindCheck(st, type, flags, t) ==
  LET cleared == [st EXCEPT !.cur = 0]
  IN  IF observers[NODE_PERFORMANCE_ENTRY_TYPE_GC] = 0
        THEN cleared
        ELSE [cleared EXCEPT
                !.queue = SetImmediate(st.queue, BuildEntry(st, type, flags, t)),
                !.count = st.count + 1]

\* Mutant: the end callback without the check of the observer counter.
MarkGarbageCollectionEnd_NoObserverCheck(st, type, flags, t) ==
  IF type # st.cur
    THEN st
    ELSE [st EXCEPT
            !.cur = 0,
            !.queue = SetImmediate(st.queue, BuildEntry(st, type, flags, t)),
            !.count = st.count + 1]

\* Mutant: the end callback with the operands of the duration swapped.
MarkGarbageCollectionEnd_Reversed(st, type, flags, t) ==
  IF type # st.cur
    THEN st
    ELSE LET cleared == [st EXCEPT !.cur = 0]
         IN  IF observers[NODE_PERFORMANCE_ENTRY_TYPE_GC] = 0
               THEN cleared
               ELSE LET start_time == ToMillis(st.mark - time_origin)
                        duration == MillisSub(ToMillis(st.mark), ToMillis(t))
                        entry == GCPerformanceEntry(start_time, duration,
                                                    type, flags, st.count + 1)
                    IN  [cleared EXCEPT
                           !.queue = SetImmediate(st.queue, entry),
                           !.count = st.count + 1]

\* Mutant: the end callback notifies the observers itself instead of
\* handing the entry to SetImmediate.
MarkGarbageCollectionEnd_NotifyInline(st, type, flags, t) ==
  IF type # st.cur
    THEN st
    ELSE LET cleared == [st EXCEPT !.cur = 0]
         IN  IF observers[NODE_PERFORMANCE_ENTRY_TYPE_GC] = 0
               THEN cleared
               ELSE [cleared EXCEPT
                       !.calls = Append(st.calls, st.count + 1),
                       !.count = st.count + 1]

\* Mutant: the end callback leaves current_gc_type as it is.
MarkGarbageCollectionEnd_NoClear(st, type, flags, t) ==
  IF type # st.cur
    THEN st
    ELSE IF observers[NODE_PERFORMANCE_ENTRY_TYPE_GC] = 0
           THEN st
           ELSE [st EXCEPT
                   !.queue = SetImmediate(st.queue, BuildEntry(st, type, flags, t)),
                   !.count = st.count + 1]

\* Mutant: the end callback taking any kind as matching when no cycle is in
\* progress.
MarkGarbageCollectionEnd_IdleMatches(st, type, flags, t) ==
  IF st.cur # 0 /\ type # st.cur
    THEN st
    ELSE LET cleared == [st EXCEPT !.cur = 0]
         IN  IF observers[NODE_PERFORMANCE_ENTRY_TYPE_GC] = 0
               THEN cleared
               ELSE [cleared EXCEPT
                       !.queue = SetImmediate(st.queue,
                                              BuildEntry(st, type, flags, t)),
                       !.count = st.count + 1]

\* Mutant: the end callback testing the observer counter before it clears the
\* kind in progress.
MarkGarbageCollectionEnd_CounterGatesClear(st, type, flags, t) ==
  IF type # st.cur \/ observers[NODE_PERFORMANCE_ENTRY_TYPE_GC] = 0
    THEN st
    ELSE [st EXCEPT
            !.cur = 0,
            !.queue = SetImmediate(st.queue, BuildEntry(st, type, flags, t)),
            !.count = st.count + 1]

\* MarkGarbageCollectionEnd(isolate, type, flags, data), reading the clock t
MarkGarbageCollectionEnd(st, type, flags, t) ==
  IF type # st.cur
    THEN st
    ELSE LET cleared == [st EXCEPT !.cur = 0]
         IN  IF observers[NODE_PERFORMANCE_ENTRY_TYPE_GC] = 0
               THEN cleared
               ELSE LET start_time == ToMillis(st.mark - time_origin)
                        duration == MillisSub(ToMillis(t), ToMillis(st.mark))
                        entry == GCPerformanceEntry(start_time, duration,
                                                    type, flags, st.count + 1)
                    IN  [cleared EXCEPT
                           !.queue = SetImmediate(st.queue, entry),
                           !.count = st.count + 1]

\* The collector invokes every registered prologue callback, in turn.
RECURSIVE RunPrologueCallbacks(_, _, _, _)
RunPrologueCallbacks(st, n, type, t) ==
  IF n = 0
    THEN st
    ELSE RunPrologueCallbacks(MarkGarbageCollectionStart(st, type, t),
                              n - 1, type, t)

\* The collector invokes every registered epilogue callback, in turn.
RECURSIVE RunEpilogueCallbacks(_, _, _, _, _)
RunEpilogueCallbacks(st, n, type, flags, t) ==
  IF n = 0
    THEN st
    ELSE RunEpilogueCallbacks(MarkGarbageCollectionEnd(st, type, flags, t),
                              n - 1, type, flags, t)

\* ------------------------------------------------- registries of the host
\* Isolate::AddGCPrologueCallback / AddGCEpilogueCallback: one more
\* registration of the (callback, data) pair
AddGCCallback(n) == n + 1

\* Isolate::RemoveGCPrologueCallback / RemoveGCEpilogueCallback: the pair is
\* deregistered; removing a pair that is not registered does nothing
RemoveGCCallback(n) == 0

\* Environment::AddCleanupHook: the hook is in the set of cleanup hooks
AddCleanupHook(n) == 1

\* Environment::RemoveCleanupHook: the hook is not in the set any more
RemoveCleanupHook(n) == 0

\* Mutant: the cleanup hook also drops the tasks already queued.
GarbageCollectionCleanupHook_DropsQueue(st) ==
  [st EXCEPT !.cur = 0,
             !.queue = <<>>,
             !.pro = RemoveGCCallback(st.pro),
             !.epi = RemoveGCCallback(st.epi)]

\* Mutant: the cleanup hook without the reset of current_gc_type.
GarbageCollectionCleanupHook_NoReset(st) ==
  [st EXCEPT !.pro = RemoveGCCallback(st.pro),
             !.epi = RemoveGCCallback(st.epi)]

\* GarbageCollectionCleanupHook(data)
GarbageCollectionCleanupHook(st) ==
  [st EXCEPT !.cur = 0,
             !.pro = RemoveGCCallback(st.pro),
             !.epi = RemoveGCCallback(st.epi)]

\* Mutant: install without the reset of current_gc_type.
InstallTracking_NoReset(st) ==
  [st EXCEPT !.pro = AddGCCallback(st.pro),
             !.epi = AddGCCallback(st.epi)]

\* The body of InstallGarbageCollectionTracking on the tracker's fields
InstallTracking(st) ==
  [st EXCEPT !.cur = 0,
             !.pro = AddGCCallback(st.pro),
             !.epi = AddGCCallback(st.epi)]

\* PerformanceEntry::Notify(env), run by the deferred task: the entry reaches
\* the callback when the entry type's observer counter is nonzero
EntryNotify(calls, entry) ==
  IF observers[NODE_PERFORMANCE_ENTRY_TYPE_GC] # 0
    THEN Append(calls, entry.seq)
    ELSE calls

\* ---------------------------------------------------------------- actions
\* The monotonic clock advances.
Tick ==
  /\ process = "running"
  /\ stale_start' = stale_start
  /\ UNCHANGED regionVars
  /\ \E t \in ClockValues : t > now /\ now' = t
  /\ UNCHANGED <<current_gc_type, performance_last_gc_start_mark, observers,
                 time_origin, gc_prologue_callbacks, gc_epilogue_callbacks,
                 cleanup_hooks, immediates, scheduled, callback_calls,
                 open_start, open_since, last_op, process>>

\* The script layer writes a counter of the shared observerCounts array.
SetObserverCount(type, n) ==
  /\ process = "running"
  /\ stale_start' = stale_start
  /\ UNCHANGED regionVars
  /\ observers' = [observers EXCEPT ![type] = n]
  /\ UNCHANGED <<current_gc_type, performance_last_gc_start_mark,
                 time_origin, now, gc_prologue_callbacks,
                 gc_epilogue_callbacks, cleanup_hooks, immediates, scheduled,
                 callback_calls, open_start, open_since, last_op, process>>

\* The collector signals the start of a cycle of kind `type`.
GCPrologue(type) ==
  /\ process = "running"
  /\ UNCHANGED regionVars
  /\ gc_prologue_callbacks > 0
  /\ SetTrackerState(RunPrologueCallbacks(TrackerState, gc_prologue_callbacks,
                                          type, now))
  /\ open_start' = IF open_start = 0 THEN type ELSE open_start
  /\ open_since' = IF open_start = 0 THEN now ELSE open_since
  /\ stale_start' = IF open_start = 0 THEN 0 ELSE stale_start
  /\ last_op' = [op |-> "start", type |-> type, was |-> current_gc_type]
  /\ UNCHANGED <<observers, time_origin, now, cleanup_hooks, process>>

\* The collector signals the end of a cycle of kind `type`.
GCEpilogue(type, flags) ==
  /\ process = "running"
  /\ UNCHANGED regionVars
  /\ gc_epilogue_callbacks > 0
  /\ LET st == RunEpilogueCallbacks(TrackerState, gc_epilogue_callbacks,
                                    type, flags, now)
     IN  /\ st.count <= MaxEntries
         /\ SetTrackerState(st)
  /\ open_start' = IF open_start = type THEN 0 ELSE open_start
  /\ open_since' = IF open_start = type THEN 0 ELSE open_since
  /\ stale_start' = stale_start
  /\ last_op' = [op |-> "end", type |-> type, was |-> current_gc_type]
  /\ UNCHANGED <<observers, time_origin, now, cleanup_hooks, process>>

\* installGarbageCollectionTracking()
InstallGarbageCollectionTracking ==
  /\ process = "running"
  /\ UNCHANGED regionVars
  /\ gc_prologue_callbacks < MaxHooks
  /\ gc_epilogue_callbacks < MaxHooks
  /\ SetTrackerState(InstallTracking(TrackerState))
  /\ cleanup_hooks' = AddCleanupHook(cleanup_hooks)
  /\ open_start' = 0
  /\ open_since' = 0
  /\ stale_start' = current_gc_type
  /\ last_op' = [op |-> "install", type |-> 0, was |-> current_gc_type]
  /\ UNCHANGED <<observers, time_origin, now, process>>

\* removeGarbageCollectionTracking()
RemoveGarbageCollectionTracking ==
  /\ process = "running"
  /\ UNCHANGED regionVars
  /\ cleanup_hooks' = RemoveCleanupHook(cleanup_hooks)
  /\ SetTrackerState(GarbageCollectionCleanupHook(TrackerState))
  /\ open_start' = 0
  /\ open_since' = 0
  /\ stale_start' = current_gc_type
  /\ last_op' = [op |-> "uninstall", type |-> 0, was |-> current_gc_type]
  /\ UNCHANGED <<observers, time_origin, now, process>>

\* The environment is torn down and runs its registered cleanup hooks.
EnvironmentCleanup ==
  /\ process = "running"
  /\ UNCHANGED regionVars
  /\ cleanup_hooks > 0
  /\ SetTrackerState(GarbageCollectionCleanupHook(TrackerState))
  /\ cleanup_hooks' = 0
  /\ open_start' = 0
  /\ open_since' = 0
  /\ stale_start' = stale_start
  /\ last_op' = [op |-> "cleanup", type |-> 0, was |-> current_gc_type]
  /\ process' = "exited"
  /\ UNCHANGED <<observers, time_origin, now>>

\* The host runs the task at the head of its immediate queue.
RunImmediate ==
  /\ process = "running"
  /\ stale_start' = stale_start
  /\ UNCHANGED regionVars
  /\ immediates # <<>>
  /\ callback_calls' = EntryNotify(callback_calls, Head(immediates))
  /\ immediates' = Tail(immediates)
  /\ last_op' = [op |-> "run", type |-> 0, was |-> current_gc_type]
  /\ UNCHANGED <<current_gc_type, performance_last_gc_start_mark, observers,
                 time_origin, now, gc_prologue_callbacks,
                 gc_epilogue_callbacks, cleanup_hooks, scheduled, open_start,
                 open_since, process>>

Next ==
  \/ Tick
  \/ \E n \in 0..MaxObservers :
       SetObserverCount(NODE_PERFORMANCE_ENTRY_TYPE_GC, n)
  \/ \E type \in GCTypes : GCPrologue(type)
  \/ \E type \in GCTypes, flags \in GCFlags : GCEpilogue(type, flags)
  \/ InstallGarbageCollectionTracking
  \/ RemoveGarbageCollectionTracking
  \/ EnvironmentCleanup
  \/ RunImmediate

Spec == Init /\ [][Next]_vars

\* ------------------------------------------- milestones, observers, notify
\* The state the binding calls below read and write, with the trace events
\* emitted and the callback invocations made by the call in progress.
Region ==
  [milestones |-> milestones,
   observers  |-> observers,
   callback   |-> performance_entry_callback,
   histograms |-> histograms,
   process    |-> process,
   trace      |-> <<>>,
   calls      |-> <<>>]

\* A failed CHECK, or a fault, ends the process.
Abort(rs) == [rs EXCEPT !.process = "aborted"]

\* `milestones[index] = value` with index outside the array: the write has no
\* range check in this file and its behaviour is undefined.  The outcomes kept
\* are a fault, a write that lands on an observer counter of the same block,
\* and a write that lands outside the block.
OutOfRangeWrite(rs) ==
  {Abort(rs), rs} \cup
  {[rs EXCEPT !.observers[e] = v] : e \in EntryTypes, v \in 0..MaxObservers}

\* Mutant: Mark keeping the larger of the slot's value and ts.
Mark_KeepsMax(rs, milestone, ts) ==
  IF milestone \in MilestoneIds
    THEN {[rs EXCEPT
             !.milestones[milestone] = IF @ > ts THEN @ ELSE ts,
             !.trace = Append(@, [milestone |-> milestone, ts |-> ts \div 1000])]}
    ELSE OutOfRangeWrite(rs)

\* Mutant: Mark writing the slot after the one it is given.
Mark_NextSlot(rs, milestone, ts) ==
  IF milestone \in MilestoneIds
    THEN {[rs EXCEPT
             !.milestones[(milestone + 1) % NODE_PERFORMANCE_MILESTONE_INVALID]
                = ts,
             !.trace = Append(@, [milestone |-> milestone, ts |-> ts \div 1000])]}
    ELSE OutOfRangeWrite(rs)

\* PerformanceState::Mark(milestone, ts): the set of outcomes
Mark(rs, milestone, ts) ==
  IF milestone \in MilestoneIds
    THEN {[rs EXCEPT
             !.milestones[milestone] = ts,
             !.trace = Append(@, [milestone |-> milestone, ts |-> ts \div 1000])]}
    ELSE OutOfRangeWrite(rs)

\* Mutant: MarkMilestone without the test against the sentinel.
MarkMilestone_NoSentinelTest(rs, kind, milestone, t) ==
  IF kind # "kPrincipal"
    THEN {Abort(rs)}
    ELSE Mark(rs, milestone, t)

\* MarkMilestone(args), called from a realm of the given kind when the clock
\* reads t
MarkMilestone(rs, kind, milestone, t) ==
  IF kind # "kPrincipal"
    THEN {Abort(rs)}
    ELSE IF milestone # NODE_PERFORMANCE_MILESTONE_INVALID
           THEN Mark(rs, milestone, t)
           ELSE {rs}

\* MarkBootstrapComplete(args)
MarkBootstrapComplete(rs, kind, t) ==
  IF kind # "kPrincipal"
    THEN {Abort(rs)}
    ELSE Mark(rs, NODE_PERFORMANCE_MILESTONE_BOOTSTRAP_COMPLETE, t)

\* Mutant: SetupPerformanceObservers keeping a callback that is already set.
SetupPerformanceObservers_FirstWins(rs, kind, fn) ==
  IF kind # "kPrincipal" \/ fn \notin Functions
    THEN Abort(rs)
    ELSE IF rs.callback = "empty" THEN [rs EXCEPT !.callback = fn] ELSE rs

\* SetupPerformanceObservers(args)
SetupPerformanceObservers(rs, kind, fn) ==
  IF kind # "kPrincipal"
    THEN Abort(rs)
    ELSE IF fn \notin Functions
           THEN Abort(rs)
           ELSE [rs EXCEPT !.callback = fn]

\* ToPerformanceEntryTypeEnum(type): the entry type of a name, or the sentinel
ToPerformanceEntryTypeEnum(name) ==
  IF name = "gc" THEN NODE_PERFORMANCE_ENTRY_TYPE_GC
  ELSE IF name = "http" THEN NODE_PERFORMANCE_ENTRY_TYPE_GC + 1
  ELSE NODE_PERFORMANCE_ENTRY_TYPE_INVALID

\* `performance_entry_callback()->Call(...)` on an empty handle dereferences
\* a null pointer: the behaviour is undefined.  The outcomes kept are a fault
\* and a call that does nothing.
CallEmptyHandle(rs) == {Abort(rs), rs}

\* Notify(args): the set of outcomes
Notify(rs, name, entry) ==
  LET entry_type == ToPerformanceEntryTypeEnum(name) IN
    IF /\ entry_type # NODE_PERFORMANCE_ENTRY_TYPE_INVALID
       /\ rs.observers[entry_type] # 0
      THEN IF rs.callback = "empty"
             THEN CallEmptyHandle(rs)
             ELSE {[rs EXCEPT
                      !.calls = Append(@, [fn |-> rs.callback,
                                           entry |-> entry])]}
      ELSE {rs}

\* Mutant: CreateELDHistogram accepting a zero interval.
CreateELDHistogram_ZeroAllowed(rs, interval) ==
  IF interval >= 0
    THEN [rs EXCEPT !.histograms = @ \cup {interval}]
    ELSE Abort(rs)

\* CreateELDHistogram(args)
CreateELDHistogram(rs, interval) ==
  IF interval > 0
    THEN [rs EXCEPT !.histograms = @ \cup {interval}]
    ELSE Abort(rs)

\* The call's outcome becomes the state; last_call records the call, and for
\* a call that names a milestone the value its slot held before the call.
Returns(rs, op, arg, was) ==
  /\ milestones' = rs.milestones
  /\ observers' = rs.observers
  /\ performance_entry_callback' = rs.callback
  /\ histograms' = rs.histograms
  /\ process' = rs.process
  /\ last_call' = [op |-> op, arg |-> arg,
                   was |-> was, trace |-> rs.trace, calls |-> rs.calls]

\* The value of a milestone's slot, 0 for an id that names none.
SlotValue(milestone) ==
  IF milestone \in MilestoneIds THEN milestones[milestone] ELSE 0

\* The variables of the GC tracker, which the calls below leave alone.
trackerVars ==
  <<current_gc_type, performance_last_gc_start_mark, time_origin, now,
    gc_prologue_callbacks, gc_epilogue_callbacks, cleanup_hooks, immediates,
    scheduled, callback_calls, open_start, open_since, last_op, stale_start>>

\* A script calls markMilestone(milestone) from a realm of the given kind.
CallMarkMilestone(kind, milestone) ==
  /\ process = "running"
  /\ \E rs \in MarkMilestone(Region, kind, milestone, now) :
       Returns(rs, "markMilestone", milestone, SlotValue(milestone))
  /\ UNCHANGED <<trackerVars, snapshot>>

\* The bootstrap calls PerformanceState::Mark(milestone, ts) with a timestamp
\* taken earlier: ts is a reading of the clock up to the present one.
CallMark(milestone, ts) ==
  /\ process = "running"
  /\ ts <= now
  /\ \E rs \in Mark(Region, milestone, ts) :
       Returns(rs, "mark", milestone, SlotValue(milestone))
  /\ UNCHANGED <<trackerVars, snapshot>>

\* A script calls markBootstrapComplete().
CallMarkBootstrapComplete(kind) ==
  /\ process = "running"
  /\ \E rs \in MarkBootstrapComplete(Region, kind, now) :
       Returns(rs, "markBootstrapComplete",
               NODE_PERFORMANCE_MILESTONE_BOOTSTRAP_COMPLETE,
               SlotValue(NODE_PERFORMANCE_MILESTONE_BOOTSTRAP_COMPLETE))
  /\ UNCHANGED <<trackerVars, snapshot>>

\* A script calls setupObservers(fn).
CallSetupPerformanceObservers(kind, fn) ==
  /\ process = "running"
  /\ Returns(SetupPerformanceObservers(Region, kind, fn), "setupObservers", fn,
             0)
  /\ UNCHANGED <<trackerVars, snapshot>>

\* A script calls notify(name, entry).
CallNotify(name, entry) ==
  /\ process = "running"
  /\ \E rs \in Notify(Region, name, entry) : Returns(rs, "notify", name, 0)
  /\ UNCHANGED <<trackerVars, snapshot>>

\* A script calls createELDHistogram(interval).
CallCreateELDHistogram(interval) ==
  /\ process = "running"
  /\ Returns(CreateELDHistogram(Region, interval), "createELDHistogram",
             interval, 0)
  /\ UNCHANGED <<trackerVars, snapshot>>

\* The snapshot builder serializes the state and its process ends; last_call
\* keeps the milestones and counters the state had.
SerializeState ==
  /\ process = "running"
  /\ snapshot' = Serialize(milestones, observers)
  /\ process' = "exited"
  /\ last_call' = [op |-> "serialize",
                   arg |-> [milestones |-> milestones, observers |-> observers],
                   was |-> 0, trace |-> <<>>, calls |-> <<>>]
  /\ UNCHANGED <<trackerVars, milestones, observers,
                 performance_entry_callback, histograms>>

\* A process starts from the snapshot: the state is constructed with the
\* SerializeInfo and deserialized.  The model follows one process at a time.
DeserializeState ==
  /\ process = "exited"
  /\ snapshot # NoSnapshot
  /\ LET state == PerformanceState(snapshot) IN
       /\ milestones' = state.milestones
       /\ observers' = state.observers
  /\ process' = "running"
  /\ snapshot' = NoSnapshot
  /\ last_call' = [op |-> "deserialize", arg |-> 0, was |-> 0, trace |-> <<>>,
                   calls |-> <<>>]
  /\ UNCHANGED <<trackerVars, performance_entry_callback, histograms>>

\* The reset of all the milestones that follows deserialization.
ReinitializeMilestones ==
  /\ process = "running"
  /\ last_call.op = "deserialize"
  /\ milestones' = [m \in MilestoneIds |-> 0 - 1]
  /\ last_call' = [op |-> "reinitialize", arg |-> 0, was |-> 0, trace |-> <<>>,
                   calls |-> <<>>]
  /\ UNCHANGED <<trackerVars, observers, performance_entry_callback,
                 histograms, snapshot, process>>

NextRegion ==
  \/ Tick
  \/ \E type \in EntryTypes, n \in 0..MaxObservers : SetObserverCount(type, n)
  \/ \E kind \in RealmKinds, milestone \in MilestoneArgs :
       CallMarkMilestone(kind, milestone)
  \/ \E milestone \in MilestoneIds, ts \in ClockValues :
       CallMark(milestone, ts)
  \/ \E kind \in RealmKinds : CallMarkBootstrapComplete(kind)
  \/ \E kind \in RealmKinds, fn \in CallbackArgs :
       CallSetupPerformanceObservers(kind, fn)
  \/ \E name \in TypeNames, entry \in Entries : CallNotify(name, entry)
  \/ \E interval \in Intervals : CallCreateELDHistogram(interval)
  \/ SerializeState
  \/ DeserializeState
  \/ ReinitializeMilestones

SpecRegion == Init /\ [][NextRegion]_vars

\* ----------------------------------------------------------------- claims
GCObservers == observers[NODE_PERFORMANCE_ENTRY_TYPE_GC]

\* A step that schedules nothing and delivers nothing.
NoEntryBuilt ==
  /\ immediates' = immediates
  /\ scheduled' = scheduled
  /\ callback_calls' = callback_calls

\* C1: a start signal that arrives while current_gc_type is nonzero, of the
\* kind in progress or of another kind, leaves current_gc_type and the start
\* mark as they were.
C1_StartIgnoredWhileInProgress ==
  [][\A type \in GCTypes :
       (GCPrologue(type) /\ current_gc_type # 0)
         => /\ current_gc_type' = current_gc_type
            /\ performance_last_gc_start_mark' = performance_last_gc_start_mark]_vars

\* C1 witness: a start of kind B was signalled while kind A was in progress
\* and after the clock had moved on; A and its start mark are still there.
C1_Witness ==
  /\ last_op.op = "start"
  /\ last_op.was # 0
  /\ last_op.type # last_op.was
  /\ current_gc_type = last_op.was
  /\ performance_last_gc_start_mark < now

\* C2: an end signal whose kind is not current_gc_type changes neither
\* current_gc_type nor the start mark and builds no entry, whether another
\* kind is in progress or the tracker is idle; an end signal of the kind in
\* progress sets current_gc_type to 0.
C2_MismatchedEndIgnored ==
  [][\A type \in GCTypes, flags \in GCFlags :
       GCEpilogue(type, flags)
         => IF type # current_gc_type
              THEN /\ current_gc_type' = current_gc_type
                   /\ performance_last_gc_start_mark' =
                        performance_last_gc_start_mark
                   /\ NoEntryBuilt
              ELSE current_gc_type' = 0]_vars

\* C2 witness: with an observer listening, an end of kind B was signalled
\* while kind A was in progress, and A is still in progress.
C2_Witness ==
  /\ last_op.op = "end"
  /\ last_op.was # 0
  /\ last_op.type # last_op.was
  /\ current_gc_type = last_op.was
  /\ GCObservers # 0
  /\ scheduled = 0

\* C3: an end signal that finds the GC observer counter at 0 builds no entry
\* and puts nothing on the immediate queue, matched or not.
C3_NoEntryWithoutObserver ==
  [][\A type \in GCTypes, flags \in GCFlags :
       (GCEpilogue(type, flags) /\ GCObservers = 0) => NoEntryBuilt]_vars

\* C3 witness: a matched end has closed a cycle and no entry was ever built.
C3_Witness ==
  /\ last_op.op = "end"
  /\ last_op.was = last_op.type
  /\ current_gc_type = 0
  /\ GCObservers = 0
  /\ scheduled = 0
  /\ immediates = <<>>

\* C4: with the GC observer counter nonzero, the end signal that closes a
\* cycle schedules exactly one entry, whose duration is not negative, and no
\* step that leaves a cycle in progress schedules any.
C4_OneEntryPerCycle ==
  [][/\ \A type \in GCTypes, flags \in GCFlags :
          (GCEpilogue(type, flags) /\ type = current_gc_type /\ GCObservers # 0)
            => /\ scheduled' = scheduled + 1
               /\ Len(immediates') = Len(immediates) + 1
               /\ immediates'[Len(immediates')].duration.ms >= 0
               /\ SubSeq(immediates', 1, Len(immediates)) = immediates
     /\ current_gc_type' # 0 => scheduled' = scheduled]_vars

\* C4 witness: the counter was raised, a cycle ran from idle to its end, and
\* exactly one entry is scheduled; time passed in between.
C4_Witness ==
  /\ last_op.op = "end"
  /\ last_op.was = last_op.type
  /\ scheduled = 1
  /\ Len(immediates) = 1
  /\ immediates[1].duration # [ms |-> 0, ns |-> 0]
  /\ immediates[1].duration.ms >= 0

StrictlyIncreasing(s) ==
  \A i, j \in 1..Len(s) : i < j => s[i] < s[j]

\* The entries in the order of their delivery: those the callback has
\* received, then those still queued from the head of the queue on.
DeliveryOrder ==
  callback_calls \o [i \in 1..Len(immediates) |-> immediates[i].seq]

\* C5: an end signal never hands an entry to the callback: the callback
\* receives an entry only in a later step, the host's run of the task at the
\* head of the immediate queue; and entries are delivered in the order in
\* which the end signals scheduled them.
C5_DeferredFifoDelivery ==
  /\ [](StrictlyIncreasing(DeliveryOrder))
  /\ [][/\ \A type \in GCTypes, flags \in GCFlags :
             GCEpilogue(type, flags) => callback_calls' = callback_calls
        /\ callback_calls' # callback_calls
             => /\ immediates # <<>>
                /\ callback_calls' =
                     Append(callback_calls, Head(immediates).seq)
                /\ immediates' = Tail(immediates)]_vars

\* C5 witness: two cycles have each scheduled an entry and the callback has
\* received both, the first one first.
C5_Witness ==
  /\ callback_calls = <<1, 2>>
  /\ scheduled = 2
  /\ immediates = <<>>

\* C6: the entry an end signal builds has start_time = (start mark - time
\* origin) / 1e6 and duration = (clock at the end - clock at the accepted
\* start) / 1e6, and carries the kind and the flags of that end signal; the
\* accepted start is the one that found the tracker idle.
C6_EntryFields ==
  [][\A type \in GCTypes, flags \in GCFlags :
       (GCEpilogue(type, flags) /\ scheduled' = scheduled + 1)
         => LET entry == immediates'[Len(immediates')]
            IN  /\ entry.name = "gc"
                /\ entry.start_time = ToMillis(open_since - time_origin)
                /\ entry.duration = ToMillis(now - open_since)
                /\ entry.kind = type
                /\ entry.flags = flags]_vars

\* C6 witness: a cycle that ran for 50 ms has ended and the entry at the tail
\* of the queue has a duration of 50 ms and the kind of the end signal.
C6_Witness ==
  /\ last_op.op = "end"
  /\ last_op.was = last_op.type
  /\ immediates # <<>>
  /\ immediates[Len(immediates)].duration = [ms |-> 50, ns |-> 0]
  /\ immediates[Len(immediates)].kind = last_op.type

\* C7: current_gc_type is the kind of the accepted start that no end of that
\* kind, install or uninstall has followed, and 0 when there is none.
C7_GcTypeIsOpenStart == current_gc_type = open_start

\* C7 witness: tracking was installed again while a cycle was in progress,
\* and current_gc_type is back to 0.
C7_Witness ==
  /\ last_op.op = "install"
  /\ last_op.was # 0
  /\ current_gc_type = 0

\* C8: with the hooks registered twice, an end signal schedules one entry when
\* it closes the cycle in progress and the GC observer counter is nonzero, and
\* none otherwise; install leaves the process running.
C8_NoDoubleDelivery ==
  [][/\ \A type \in GCTypes, flags \in GCFlags :
          (GCEpilogue(type, flags) /\ gc_epilogue_callbacks >= 2)
            => scheduled' - scheduled =
                 IF type = current_gc_type /\ GCObservers # 0 THEN 1 ELSE 0
     /\ InstallGarbageCollectionTracking
          => process' = "running" /\ current_gc_type' = 0]_vars

\* C8 witness: with both hooks registered twice, a cycle has ended and one
\* entry is scheduled.
C8_Witness ==
  /\ last_op.op = "end"
  /\ last_op.was = last_op.type
  /\ gc_prologue_callbacks >= 2
  /\ gc_epilogue_callbacks >= 2
  /\ scheduled = 1
  /\ Len(immediates) = 1

\* C9: uninstall leaves the immediate queue as it is, and an entry leaves the
\* queue only when the host runs the task at its head, which notifies the
\* observers of that entry.
C9_UninstallKeepsQueue ==
  [][/\ RemoveGarbageCollectionTracking
          => immediates' = immediates /\ callback_calls' = callback_calls
     /\ (\E i \in 1..Len(immediates) :
            \A j \in 1..Len(immediates') : immediates'[j] # immediates[i])
          => /\ immediates' = Tail(immediates)
             /\ callback_calls' = EntryNotify(callback_calls, Head(immediates))
             /\ process = "running"]_vars

\* C9 witness: an entry was scheduled, tracking was uninstalled, and the host
\* then ran the task: the callback has received the entry.
C9_Witness ==
  /\ last_op.op = "run"
  /\ gc_prologue_callbacks = 0
  /\ gc_epilogue_callbacks = 0
  /\ cleanup_hooks = 0
  /\ scheduled = 1
  /\ callback_calls = <<1>>
  /\ process = "running"

NotInstalled ==
  /\ gc_prologue_callbacks = 0
  /\ gc_epilogue_callbacks = 0
  /\ cleanup_hooks = 0

\* C10: uninstall leaves current_gc_type at 0, both hooks and the cleanup
\* hook deregistered and the process running, also while a cycle is in
\* progress; when tracking is not installed it changes nothing.
C10_UninstallSafe ==
  [][RemoveGarbageCollectionTracking
       => /\ current_gc_type' = 0
          /\ gc_prologue_callbacks' = 0
          /\ gc_epilogue_callbacks' = 0
          /\ cleanup_hooks' = 0
          /\ process' = "running"
          /\ NotInstalled
               => UNCHANGED <<current_gc_type, performance_last_gc_start_mark,
                              observers, time_origin, now,
                              gc_prologue_callbacks, gc_epilogue_callbacks,
                              cleanup_hooks, immediates, scheduled,
                              callback_calls, process>>]_vars

\* C10 witness: tracking was uninstalled while a cycle was in progress.
C10_Witness ==
  /\ last_op.op = "uninstall"
  /\ last_op.was # 0
  /\ current_gc_type = 0
  /\ NotInstalled

\* A binding call that ended in a fault or a failed CHECK.
Faulted == process' = "aborted"

\* C11: markMilestone with the sentinel id NODE_PERFORMANCE_MILESTONE_INVALID
\* leaves the whole shared region as it was (every milestone slot and every
\* observer counter) and emits no trace event.
C11_SentinelLeavesRegion ==
  [][\A kind \in RealmKinds :
       CallMarkMilestone(kind, NODE_PERFORMANCE_MILESTONE_INVALID)
         => /\ milestones' = milestones
            /\ observers' = observers
            /\ last_call'.trace = <<>>]_vars

\* markMilestone(INVALID) has returned over a region that holds a marked
\* milestone and a nonzero counter.
C11_Witness ==
  /\ last_call.op = "markMilestone"
  /\ last_call.arg = NODE_PERFORMANCE_MILESTONE_INVALID
  /\ process = "running"
  /\ \E m \in MilestoneIds : milestones[m] # 0 - 1
  /\ \E e \in EntryTypes : observers[e] # 0

\* The ids of MilestoneArgs that are neither a milestone nor the sentinel.
OutOfRangeIds ==
  MilestoneArgs \ (MilestoneIds \cup {NODE_PERFORMANCE_MILESTONE_INVALID})

\* C12: an out-of-range id is a silent no-op, never a fault: markMilestone
\* with a negative id or an id greater than the sentinel writes no slot and
\* does not fault, and notify with a name that maps to no defined entry type
\* invokes no callback and does not fault.
C12_OutOfRangeIsNoOp ==
  [][/\ \A milestone \in OutOfRangeIds :
          CallMarkMilestone("kPrincipal", milestone)
            => /\ milestones' = milestones
               /\ observers' = observers
               /\ ~Faulted
     /\ \A name \in TypeNames, entry \in Entries :
          (/\ ToPerformanceEntryTypeEnum(name)
                = NODE_PERFORMANCE_ENTRY_TYPE_INVALID
           /\ CallNotify(name, entry))
            => /\ last_call'.calls = <<>>
               /\ ~Faulted]_vars

\* C13: with a callback registered, notify(name, entry) invokes the
\* registered callback exactly once, within the call, with that entry when
\* the entry type's observer counter is nonzero, and not at all when it is 0;
\* the callback invoked is the one set by the most recent setupObservers.
C13_NotifyCallsRegistered ==
  [][/\ \A name \in TypeNames, entry \in Entries :
          (/\ ToPerformanceEntryTypeEnum(name) \in EntryTypes
           /\ performance_entry_callback \in Functions
           /\ CallNotify(name, entry))
            => /\ last_call'.calls =
                    IF observers[ToPerformanceEntryTypeEnum(name)] # 0
                      THEN <<[fn |-> performance_entry_callback,
                              entry |-> entry]>>
                      ELSE <<>>
               /\ ~Faulted
     /\ \A fn \in Functions :
          CallSetupPerformanceObservers("kPrincipal", fn)
            => performance_entry_callback' = fn]_vars

\* notify has invoked the registered callback "g", once, with entry "e2".
C13_Witness ==
  /\ last_call.op = "notify"
  /\ last_call.calls = <<[fn |-> "g", entry |-> "e2"]>>
  /\ performance_entry_callback = "g"

\* C14: notify before any callback has been registered is a safe no-op for
\* every entry type and every counter value, nonzero included: no callback is
\* invoked, no fault occurs, and the entry is dropped, not buffered.
C14_NotifyWithoutCallbackSafe ==
  [][\A name \in TypeNames, entry \in Entries :
       (performance_entry_callback = "empty" /\ CallNotify(name, entry))
         => /\ last_call'.calls = <<>>
            /\ ~Faulted
            /\ UNCHANGED <<milestones, observers, performance_entry_callback,
                           histograms, immediates>>]_vars

\* C15 as stated: creating an interval histogram with a non-positive interval
\* returns an error before any timer is armed and does not terminate the
\* process; more generally no operation reaches a process-terminated state.
C15_NoOperationTerminates ==
  [][/\ \A interval \in Intervals :
          (interval <= 0 /\ CallCreateELDHistogram(interval))
            => histograms' = histograms /\ ~Faulted
     /\ ~Faulted]_vars

\* The calls that fail a CHECK of this file.
FailsCheck ==
  \/ \E interval \in Intervals :
       interval <= 0 /\ CallCreateELDHistogram(interval)
  \/ \E milestone \in MilestoneArgs :
       CallMarkMilestone("kShadowRealm", milestone)
  \/ CallMarkBootstrapComplete("kShadowRealm")
  \/ \E fn \in CallbackArgs : CallSetupPerformanceObservers("kShadowRealm", fn)
  \/ CallSetupPerformanceObservers("kPrincipal", "undefined")

\* The calls whose behaviour is undefined: the out-of-range milestone write
\* (C12) and the call through an empty callback handle (C14).
HasUndefinedBehaviour ==
  \/ \E milestone \in OutOfRangeIds : CallMarkMilestone("kPrincipal", milestone)
  \/ \E name \in TypeNames, entry \in Entries :
       /\ performance_entry_callback = "empty"
       /\ ToPerformanceEntryTypeEnum(name) \in EntryTypes
       /\ observers[ToPerformanceEntryTypeEnum(name)] # 0
       /\ CallNotify(name, entry)

\* C15, amended: creating an interval histogram with a non-positive interval
\* creates no histogram and arms no timer, and terminates the process through
\* the failed CHECK_GT instead of returning an error; a positive interval
\* creates the histogram and leaves the process running.  Every call that
\* fails a CHECK terminates the process, and the process is terminated by no
\* step other than a failed CHECK or a call with undefined behaviour.
C15_ChecksTerminate ==
  [][/\ \A interval \in Intervals :
          CallCreateELDHistogram(interval)
            => IF interval <= 0
                 THEN histograms' = histograms /\ Faulted
                 ELSE histograms' = histograms \cup {interval} /\ ~Faulted
     /\ FailsCheck => Faulted
     /\ Faulted => FailsCheck \/ HasUndefinedBehaviour]_vars

\* createELDHistogram(0) has terminated the process after a histogram had
\* been created with a positive interval.
C15_Witness ==
  /\ last_call.op = "createELDHistogram"
  /\ last_call.arg = 0
  /\ process = "aborted"
  /\ histograms = {1}

\* A step of one of the three operations that mark a milestone.
MarksMilestone(m) ==
  \/ CallMarkMilestone("kPrincipal", m)
  \/ \E ts \in ClockValues : CallMark(m, ts)
  \/ (m = NODE_PERFORMANCE_MILESTONE_BOOTSTRAP_COMPLETE
      /\ CallMarkBootstrapComplete("kPrincipal"))

\* C16 as stated: for every valid milestone id and any sequence of marks,
\* the value after a mark is at least the value before it and is not the
\* sentinel -1, also when the mark is given an explicit timestamp.
C16_MarksNeverDecrease ==
  [][\A m \in MilestoneIds :
       MarksMilestone(m)
         => /\ milestones'[m] >= milestones[m]
            /\ milestones'[m] # 0 - 1]_vars

\* C16, amended: a mark that takes its timestamp from the monotonic clock
\* (markMilestone, markBootstrapComplete) leaves the value at least what it
\* was; a mark with an explicit timestamp writes that timestamp whatever the
\* slot held, so the value may decrease; the explicit timestamps are earlier
\* readings of the clock, and after either mark the value is not the sentinel.
C16_ClockMarksNeverDecrease ==
  [][\A m \in MilestoneIds :
       /\ (\/ CallMarkMilestone("kPrincipal", m)
           \/ (m = NODE_PERFORMANCE_MILESTONE_BOOTSTRAP_COMPLETE
               /\ CallMarkBootstrapComplete("kPrincipal")))
            => /\ milestones'[m] = now
               /\ milestones'[m] >= milestones[m]
       /\ \A ts \in ClockValues : CallMark(m, ts) => milestones'[m] = ts
       /\ MarksMilestone(m) => milestones'[m] # 0 - 1]_vars

\* markMilestone has raised a milestone that a mark with an explicit
\* timestamp had set to an earlier reading of the clock.
C16_Witness ==
  /\ last_call.op = "markMilestone"
  /\ last_call.arg \in MilestoneIds
  /\ last_call.was = ProcessStart
  /\ milestones[last_call.arg] = ProcessStart + CoarseStep
  /\ process = "running"

\* C17: a region constructed without a snapshot has every milestone at the
\* sentinel -1; mark(id, ts) for a valid id sets slot id to ts and leaves all
\* other milestone slots and all observer counters unchanged; and
\* markBootstrapComplete changes only the BOOTSTRAP_COMPLETE slot.
C17_MarkWritesOneSlot ==
  /\ \A m \in MilestoneIds : milestones[m] = 0 - 1
  /\ [][/\ \A m \in MilestoneIds, ts \in ClockValues :
             CallMark(m, ts)
               => /\ milestones' = [milestones EXCEPT ![m] = ts]
                  /\ observers' = observers
        /\ \A m \in MilestoneIds :
             CallMarkMilestone("kPrincipal", m)
               => /\ milestones' = [milestones EXCEPT ![m] = now]
                  /\ observers' = observers
        /\ CallMarkBootstrapComplete("kPrincipal")
             => /\ \A m \in MilestoneIds :
                     m # NODE_PERFORMANCE_MILESTONE_BOOTSTRAP_COMPLETE
                       => milestones'[m] = milestones[m]
                /\ milestones'[NODE_PERFORMANCE_MILESTONE_BOOTSTRAP_COMPLETE]
                     = now
                /\ observers' = observers]_vars

\* Milestone 2 has been marked on a fresh region: it holds the timestamp
\* and the other milestones still hold the sentinel, beside a nonzero counter.
C17_Witness ==
  /\ last_call.op = "mark"
  /\ last_call.arg = 2
  /\ last_call.was = 0 - 1
  /\ milestones[2] = ProcessStart
  /\ \A m \in MilestoneIds \ {2} : milestones[m] = 0 - 1
  /\ \E e \in EntryTypes : observers[e] # 0

\* C18: serialize followed by deserialize reproduces identical observer
\* counters; restoring from the snapshot alone does not reset the milestones,
\* which come back as they were serialized; after the reinitialize step that
\* follows deserialization every milestone is the sentinel -1, whatever it
\* held before serialize.
C18_SnapshotRoundTrip ==
  [][/\ DeserializeState
          => /\ last_call.op = "serialize"
             /\ observers' = last_call.arg.observers
             /\ milestones' = last_call.arg.milestones
     /\ ReinitializeMilestones
          => /\ \A m \in MilestoneIds : milestones'[m] = 0 - 1
             /\ observers' = observers]_vars

\* A state restored from a snapshot, not reinitialized: it holds a marked
\* milestone, an unmarked one and a nonzero counter.
C18_Witness ==
  /\ last_call.op = "deserialize"
  /\ process = "running"
  /\ \E m \in MilestoneIds : milestones[m] # 0 - 1
  /\ \E m \in MilestoneIds : milestones[m] = 0 - 1
  /\ \E e \in EntryTypes : observers[e] # 0

\* C19: no entry is built from a start mark that predates the most recent
\* install or uninstall.  An end signal that finds no start accepted since the
\* last install or uninstall is ignored, the kind of a start discarded by that
\* install or uninstall included.  Every entry scheduled takes its start time
\* from the mark of a start accepted after the last install or uninstall; the
\* step that schedules it closes that start, and only an accepted start opens
\* one, so the entries scheduled never outnumber the accepted starts.
C19_NoEntryFromStaleMark ==
  [][/\ \A type \in GCTypes, flags \in GCFlags :
          GCEpilogue(type, flags)
            => /\ open_start = 0
                    => /\ NoEntryBuilt
                       /\ current_gc_type' = current_gc_type
                       /\ performance_last_gc_start_mark'
                            = performance_last_gc_start_mark
               /\ scheduled' # scheduled
                    => /\ scheduled' = scheduled + 1
                       /\ open_start = type
                       /\ open_start' = 0
                       /\ performance_last_gc_start_mark = open_since
                       /\ immediates'[Len(immediates')].start_time
                            = ToMillis(open_since - time_origin)
     /\ scheduled' # scheduled
          => \E type \in GCTypes, flags \in GCFlags : GCEpilogue(type, flags)
     /\ (open_start = 0 /\ open_start' # 0)
          => \E type \in GCTypes :
               GCPrologue(type) /\ current_gc_type = 0]_vars

\* With an observer listening, an end of kind A arrived after an install or
\* uninstall had discarded an accepted start of kind A, no start having been
\* accepted since: it was ignored, and no entry has ever been scheduled.
C19_Witness ==
  /\ last_op.op = "end"
  /\ last_op.type = stale_start
  /\ stale_start # 0
  /\ GCObservers # 0
  /\ gc_epilogue_callbacks > 0
  /\ scheduled = 0
  /\ current_gc_type = 0

\* C20: the observer counter gates only the construction of entries, never
\* the tracker's state.  Every step takes (current_gc_type,
\* performance_last_gc_start_mark) to a value fixed by the pair itself, the
\* signal and the clock, with no part for the counters, so two runs that
\* differ only in the counters go through the same sequence of pairs: a
\* matched end clears current_gc_type also when the counter is 0, a write to
\* a counter changes neither field, and the counter read by the end callback
\* decides only whether the matched end schedules an entry.
C20_CounterGatesOnlyEntries ==
  [][/\ \A type \in GCTypes :
          GCPrologue(type)
            => <<current_gc_type', performance_last_gc_start_mark'>> =
                 IF current_gc_type = 0
                   THEN <<type, now>>
                   ELSE <<current_gc_type, performance_last_gc_start_mark>>
     /\ \A type \in GCTypes, flags \in GCFlags :
          GCEpilogue(type, flags)
            => /\ <<current_gc_type', performance_last_gc_start_mark'>> =
                    <<IF type = current_gc_type THEN 0 ELSE current_gc_type,
                      performance_last_gc_start_mark>>
               /\ IF type = current_gc_type /\ GCObservers # 0
                    THEN scheduled' = scheduled + 1
                    ELSE NoEntryBuilt
     /\ \A n \in 0..MaxObservers :
          SetObserverCount(NODE_PERFORMANCE_ENTRY_TYPE_GC, n)
            => /\ UNCHANGED <<current_gc_type, performance_last_gc_start_mark>>
               /\ NoEntryBuilt
     /\ (InstallGarbageCollectionTracking \/ RemoveGarbageCollectionTracking)
          => <<current_gc_type', performance_last_gc_start_mark'>> =
               <<0, performance_last_gc_start_mark>>]_vars

\* One run with both counter values: a matched end has just cleared the kind
\* in progress with the counter at 0 and built nothing, after an earlier
\* cycle, closed with the counter nonzero, had its entry scheduled.
C20_Witness ==
  /\ last_op.op = "end"
  /\ last_op.was = last_op.type
  /\ current_gc_type = 0
  /\ GCObservers = 0
  /\ scheduled = 1
  /\ Len(immediates) = 1
  /\ immediates[1].start_time
       # ToMillis(performance_last_gc_start_mark - time_origin)

====
